---------------------------- MODULE Spec2Model ----------------------------
(***************************************************************************)
(* Model of the BloomFilter class of src/main.py (BloomSuitePro).          *)
(*                                                                         *)
(* One BloomFilter instance is followed from its creation (__init__,       *)
(* from_text_file or from_file) through add and to_file calls, and through *)
(* a re-load of the file it wrote.  Byte streams are sequences of 0..255,  *)
(* the header is packed and unpacked as struct "<iii d" does it.           *)
(*                                                                         *)
(* Python integers are unbounded, the model checker's are 32 bits wide.    *)
(* The field n, the only one the program increments, is therefore kept as  *)
(* a wide integer [hi, lo] of value hi * 2^16 + lo, so that the value 2^31 *)
(* that add reaches from 2^31 - 1 exists in the model.                     *)
(***************************************************************************)
EXTENDS Integers, Sequences, FiniteSets

(***************************************************************************)
(* Bounds of the model.                                                    *)
(***************************************************************************)
MaxPayload == 2      \* longest bit-array part of a byte stream given to from_file
MaxLines == 2        \* longest text file given to from_text_file, in lines
MaxNewM == 9         \* largest m given to the constructor directly
MaxAdds == 2         \* add calls followed on one instance

(***************************************************************************)
(* Program constants.                                                      *)
(***************************************************************************)
HeaderLen == 20
MaxInt32 == 2147483647
MinInt32 == -MaxInt32 - 1
Limb == 65536
\* 0x9e3779b97f4a7c16, most significant byte first
GOLDEN == <<158, 55, 121, 185, 127, 74, 124, 22>>
\* math.log(2) and math.log(2)**2 in millionths
LN2 == 693147
LN2SQ == 480453

(***************************************************************************)
(* Integer helpers with Python's semantics.                                *)
(***************************************************************************)
Abs(x) == IF x < 0 THEN -x ELSE x

\* a // b for b > 0 (floor division)
FloorDiv(a, b) == IF a >= 0 THEN a \div b ELSE -((-a + b - 1) \div b)

\* math.ceil(a / b) for b > 0
CeilDiv(a, b) == -FloorDiv(-a, b)

\* a % b for b > 0: the result is in 0 .. b-1
PosMod(a, b) == a - b * FloorDiv(a, b)

\* Wide integers: value hi * Limb + lo, lo in 0 .. Limb-1.
Wide(v) == [hi |-> FloorDiv(v, Limb), lo |-> PosMod(v, Limb)]
WideSucc(w) == IF w.lo = Limb - 1 THEN [hi |-> w.hi + 1, lo |-> 0]
               ELSE [hi |-> w.hi, lo |-> w.lo + 1]
WideLess(a, b) == a.hi < b.hi \/ (a.hi = b.hi /\ a.lo < b.lo)
WideInInt32(w) == w.hi >= -(Limb \div 2) /\ w.hi <= (Limb \div 2) - 1
\* only for WideInInt32 values
Narrow(w) == IF w.hi = -(Limb \div 2) /\ w.lo = 0 THEN MinInt32
             ELSE w.hi * Limb + w.lo

(***************************************************************************)
(* IEEE-754 doubles: sign, 11-bit exponent, 52-bit fraction kept as one    *)
(* 4-bit digit followed by six bytes, most significant first.              *)
(***************************************************************************)
Float(s, e, f) == [sign |-> s, exp |-> e, frac |-> f]
ZeroFrac == <<0, 0, 0, 0, 0, 0, 0>>
FZero == Float(0, 0, ZeroFrac)                               \* 0.0
FHalf == Float(0, 1022, ZeroFrac)                            \* 0.5
FHundredth == Float(0, 1016, <<4, 122, 225, 71, 174, 20, 123>>)  \* 0.01
FOne == Float(0, 1023, ZeroFrac)                             \* 1.0
FMinusHalf == Float(1, 1022, ZeroFrac)                       \* -0.5
FNaN == Float(0, 2047, <<8, 0, 0, 0, 0, 0, 0>>)              \* float("nan")
FNineTenths == Float(0, 1022, <<12, 204, 204, 204, 204, 204, 205>>)  \* 0.9

\* 0 < x < 1 as Python evaluates it on a float (false for nan)
FloatInUnit(x) ==
    /\ x.sign = 0
    /\ x.exp < 1023
    /\ (x.exp > 0 \/ x.frac # ZeroFrac)

\* math.log(x) in millionths, for the doubles of the model in (0, 1)
LogMicro(x) ==
    IF x = FHundredth THEN -4605170
    ELSE IF x = FNineTenths THEN -105361
    ELSE (x.exp - 1023) * LN2


(***************************************************************************)
(* struct.pack / struct.unpack with the format "<iii d".                   *)
(***************************************************************************)
\* "<i" of a wide integer in the signed 32-bit range: 4 bytes, little-endian
pack_i(w) ==
    LET h == PosMod(w.hi, Limb)
    IN  <<w.lo % 256, w.lo \div 256, h % 256, h \div 256>>

unpack_i(b) ==
    LET h == b[4] * 256 + b[3]
    IN  [hi |-> IF h >= Limb \div 2 THEN h - Limb ELSE h,
         lo |-> b[2] * 256 + b[1]]

\* "<d": 8 bytes, little-endian
pack_d(x) ==
    <<x.frac[7], x.frac[6], x.frac[5], x.frac[4], x.frac[3], x.frac[2],
      (x.exp % 16) * 16 + x.frac[1], x.sign * 128 + (x.exp \div 16)>>

unpack_d(b) ==
    Float(b[8] \div 128,
          (b[8] % 128) * 16 + (b[7] \div 16),
          <<b[7] % 16, b[6], b[5], b[4], b[3], b[2], b[1]>>)

\* struct.pack("<iii d", m, k, n, error_rate); m and k are plain integers
\* of the model, n is wide.  struct.error when an integer does not fit.
pack_header(fm, fk, fn, fe) ==
    IF WideInInt32(Wide(fm)) /\ WideInInt32(Wide(fk)) /\ WideInInt32(fn)
    THEN [err |-> "none",
          bytes |-> pack_i(Wide(fm)) \o pack_i(Wide(fk)) \o pack_i(fn) \o pack_d(fe)]
    ELSE [err |-> "struct.error", bytes |-> <<>>]

\* struct.unpack("<iii d", data[:20])
unpack_header(d) ==
    [m |-> Narrow(unpack_i(SubSeq(d, 1, 4))),
     k |-> Narrow(unpack_i(SubSeq(d, 5, 8))),
     n |-> unpack_i(SubSeq(d, 9, 12)),
     error_rate |-> unpack_d(SubSeq(d, 13, 20))]

(***************************************************************************)
(* bytearray indexing and slicing.                                         *)
(***************************************************************************)
\* b[:stop] for any integer stop
SliceTo(b, stop) ==
    LET e == IF stop < 0 THEN Len(b) + stop ELSE stop
        c == IF e < 0 THEN 0 ELSE IF e > Len(b) THEN Len(b) ELSE e
    IN  SubSeq(b, 1, c)

\* the 1-based position b[idx] addresses, 0 when it raises IndexError
Index(b, idx) ==
    LET j == IF idx < 0 THEN idx + Len(b) ELSE idx
    IN  IF j >= 0 /\ j < Len(b) THEN j + 1 ELSE 0

BitOf(byte, i) == (byte \div (2 ^ i)) % 2

\* byte = (1 << i): the assignment in place of |=
OrBit_Assign(byte, i) == 2 ^ i

\* byte | (1 << i)
OrBit(byte, i) == IF BitOf(byte, i) = 1 THEN byte ELSE byte + 2 ^ i

Zeros(len) == [i \in 1 .. len |-> 0]

(***************************************************************************)
(* BloomFilter.__init__ without a bit_array argument.                      *)
(***************************************************************************)
\* bytearray(math.ceil(m/8)) raises ValueError for a negative count
BloomFilterNew(fm, fk, fn, fe) ==
    IF CeilDiv(fm, 8) < 0
    THEN [err |-> "ValueError"]
    ELSE [err |-> "none", m |-> fm, k |-> fk, n |-> fn, error_rate |-> fe,
          bit_array |-> Zeros(CeilDiv(fm, 8))]

(***************************************************************************)
(* BloomFilter._hashes and BloomFilter.add.                                *)
(***************************************************************************)
RECURSIVE GoldenMod(_, _, _)
\* 0x9e3779b97f4a7c16 % mm for mm > 0, byte by byte
GoldenMod(i, acc, mm) ==
    IF i > Len(GOLDEN) THEN acc
    ELSE GoldenMod(i + 1, (acc * 256 + GOLDEN[i]) % mm, mm)

\* (base_hash + i * 0x9e3779b97f4a7c16) % m, for m # 0; Python's % takes
\* the sign of the divisor
hashes(base_hash, i, fm) ==
    LET mm == Abs(fm)
        t == (PosMod(base_hash, mm) + (((i % mm) * GoldenMod(1, 0, mm)) % mm)) % mm
    IN  IF fm > 0 \/ t = 0 THEN t ELSE t - mm

RECURSIVE AddLoop(_, _, _, _, _)
\* the loop of add from iteration i on: the bits it leaves and how it ends
AddLoop(bits, base_hash, i, fk, fm) ==
    IF i >= fk THEN [bit_array |-> bits, err |-> "none"]
    ELSE IF fm = 0 THEN [bit_array |-> bits, err |-> "ZeroDivisionError"]
    ELSE LET h == hashes(base_hash, i, fm)
             byte_idx == FloorDiv(h, 8)
             bit_idx == PosMod(h, 8)
             pos == Index(bits, byte_idx)
         IN  IF pos = 0 THEN [bit_array |-> bits, err |-> "IndexError"]
             ELSE AddLoop([bits EXCEPT ![pos] = OrBit(bits[pos], bit_idx)],
                          base_hash, i + 1, fk, fm)

\* add without the count of the element
add_NoCount(f, base_hash) ==
    LET r == AddLoop(f.bit_array, base_hash, 0, f.k, f.m)
    IN  [bit_array |-> r.bit_array, n |-> f.n, err |-> r.err]

\* add(item) on the fields (m, k, n, bit_array)
add(f, base_hash) ==
    LET r == AddLoop(f.bit_array, base_hash, 0, f.k, f.m)
    IN  [bit_array |-> r.bit_array,
         n |-> IF r.err = "none" THEN WideSucc(f.n) ELSE f.n,
         err |-> r.err]

\* contains(element) of the specification, section 4.3: the positions of
\* add, true only if every one of them is set
contains(bits, base_hash, fk, fm) ==
    \A i \in 0 .. fk - 1 :
        LET h == hashes(base_hash, i, fm)
            pos == Index(bits, FloorDiv(h, 8))
        IN  pos # 0 /\ BitOf(bits[pos], PosMod(h, 8)) = 1

(***************************************************************************)
(* BloomFilter.from_file, after the file was read into data.               *)
(***************************************************************************)
\* the filter returned for fewer than 20 bytes, the bytes kept as buffer
HeaderTooShort_KeepBytes(d) ==
    [m |-> 0, k |-> 0, n |-> Wide(0), error_rate |-> FZero,
     bit_array |-> d, diag |-> <<"File Structure Warning">>]

\* len(data) < 20: a warning and an empty filter
HeaderTooShort(d) ==
    [m |-> 0, k |-> 0, n |-> Wide(0), error_rate |-> FZero,
     bit_array |-> <<>>, diag |-> <<"File Structure Warning">>]

\* the reconciliation with the warning of the short case left out
Reconcile_NoWarning(h, bits) ==
    LET required_bytes == CeilDiv(h.m, 8)
        actual_bits == Len(bits) * 8
    IN  IF actual_bits < h.m
        THEN [m |-> actual_bits, k |-> h.k, n |-> h.n,
              error_rate |-> h.error_rate, bit_array |-> bits,
              diag |-> <<>>]
        ELSE IF actual_bits > h.m
        THEN [m |-> h.m, k |-> h.k, n |-> h.n,
              error_rate |-> h.error_rate,
              bit_array |-> SliceTo(bits, required_bytes),
              diag |-> IF actual_bits - h.m > 7
                       THEN <<"Bit Array Info">> ELSE <<>>]
        ELSE [m |-> h.m, k |-> h.k, n |-> h.n,
              error_rate |-> h.error_rate, bit_array |-> bits,
              diag |-> <<>>]

\* the declared m of header h against the bytes that follow the header
Reconcile(h, bits) ==
    LET required_bytes == CeilDiv(h.m, 8)
        actual_bits == Len(bits) * 8
    IN  IF actual_bits < h.m
        THEN [m |-> actual_bits, k |-> h.k, n |-> h.n,
              error_rate |-> h.error_rate, bit_array |-> bits,
              diag |-> <<"Bit Array Warning">>]
        ELSE IF actual_bits > h.m
        THEN [m |-> h.m, k |-> h.k, n |-> h.n,
              error_rate |-> h.error_rate,
              bit_array |-> SliceTo(bits, required_bytes),
              diag |-> IF actual_bits - h.m > 7
                       THEN <<"Bit Array Info">> ELSE <<>>]
        ELSE [m |-> h.m, k |-> h.k, n |-> h.n,
              error_rate |-> h.error_rate, bit_array |-> bits,
              diag |-> <<>>]

from_file(d) ==
    IF Len(d) < HeaderLen
    THEN HeaderTooShort(d)
    ELSE Reconcile(unpack_header(SubSeq(d, 1, HeaderLen)),
                   SubSeq(d, HeaderLen + 1, Len(d)))

(***************************************************************************)
(* BloomFilter.to_file: the bytes written, or the exception of struct.pack *)
(* raised before the file is opened.                                       *)
(***************************************************************************)
\* to_file writing the capacity of the buffer in place of m
to_file_Capacity(fm, fk, fn, fe, bits) ==
    LET header == pack_header(Len(bits) * 8, fk, fn, fe)
    IN  IF header.err = "none"
        THEN [err |-> "none", bytes |-> header.bytes \o bits]
        ELSE [err |-> header.err, bytes |-> <<>>]

to_file(fm, fk, fn, fe, bits) ==
    LET header == pack_header(fm, fk, fn, fe)
    IN  IF header.err = "none"
        THEN [err |-> "none", bytes |-> header.bytes \o bits]
        ELSE [err |-> header.err, bytes |-> <<>>]

(***************************************************************************)
(* BloomFilter.optimal_parameters.                                         *)
(***************************************************************************)
\* round(num / den) for den > 0, halves to the even neighbour
RoundDiv(num, den) ==
    LET q == FloorDiv(num, den)
        r == num - q * den
    IN  IF 2 * r > den THEN q + 1
        ELSE IF 2 * r < den THEN q
        ELSE q + (q % 2)

Max(a, b) == IF a >= b THEN a ELSE b

\* optimal_parameters without the clamp of k to 1
optimal_parameters_NoClamp(num_elements, error_rate) ==
    IF num_elements <= 0 THEN [err |-> "ValueError", m |-> 0, k |-> 0]
    ELSE IF ~FloatInUnit(error_rate) THEN [err |-> "ValueError", m |-> 0, k |-> 0]
    ELSE LET mm == CeilDiv(-num_elements * LogMicro(error_rate), LN2SQ)
             kk == RoundDiv(mm * LN2, num_elements * 1000000)
         IN  [err |-> "none", m |-> mm, k |-> kk]

optimal_parameters(num_elements, error_rate) ==
    IF num_elements <= 0 THEN [err |-> "ValueError", m |-> 0, k |-> 0]
    ELSE IF ~FloatInUnit(error_rate) THEN [err |-> "ValueError", m |-> 0, k |-> 0]
    ELSE LET mm == CeilDiv(-num_elements * LogMicro(error_rate), LN2SQ)
             kk == Max(1, RoundDiv(mm * LN2, num_elements * 1000000))
         IN  [err |-> "none", m |-> mm, k |-> kk]

(***************************************************************************)
(* BloomFilter.from_text_file.  A text file is a sequence of lines, a line *)
(* a sequence of characters without its terminator.                        *)
(***************************************************************************)
Whitespace == {" "}

RECURSIVE strip(_)
strip(line) ==
    IF line = <<>> THEN line
    ELSE IF Head(line) \in Whitespace THEN strip(Tail(line))
    ELSE IF line[Len(line)] \in Whitespace THEN strip(SubSeq(line, 1, Len(line) - 1))
    ELSE line

RECURSIVE InsertLines(_, _, _, _)
\* the second pass: add every non-empty stripped line; items collects them
InsertLines(f, lines, i, hash) ==
    IF i > Len(lines) \/ f.err # "none" THEN f
    ELSE LET element == strip(lines[i])
         IN  IF element # <<>>
             THEN LET r == add(f, hash[element])
                  IN  InsertLines([f EXCEPT !.bit_array = r.bit_array,
                                            !.n = r.n, !.err = r.err,
                                            !.items = @ \cup {element}],
                                  lines, i + 1, hash)
             ELSE InsertLines(f, lines, i + 1, hash)

NoFilter(e) ==
    [err |-> e, m |-> 0, k |-> 0, n |-> Wide(0), error_rate |-> FZero,
     bit_array |-> <<>>, items |-> {}]

from_text_file(lines, error_rate, hash) ==
    LET lines_count == Len(lines)
        p == optimal_parameters(lines_count, error_rate)
        bf == BloomFilterNew(p.m, p.k, Wide(0), error_rate)
    IN  IF lines_count = 0 THEN NoFilter("ValueError")
        ELSE IF p.err # "none" THEN NoFilter(p.err)
        ELSE IF bf.err # "none" THEN NoFilter(bf.err)
        ELSE InsertLines([err |-> "none", m |-> bf.m, k |-> bf.k, n |-> bf.n,
                          error_rate |-> bf.error_rate,
                          bit_array |-> bf.bit_array, items |-> {}],
                         lines, 1, hash)

(***************************************************************************)
(* Inputs.                                                                 *)
(***************************************************************************)
\* elements given to add, and the lines of text files
Elems == {<<"a">>, <<"b">>}
LineVals == {<<>>, <<" ">>, <<"a">>, <<" ", "b", " ">>}
TextFiles == UNION {[1 .. l -> LineVals] : l \in 0 .. MaxLines}

\* values hash(item) takes; the function is fixed for the life of the process
HashVals == {-3, 12}

\* error rates
RateVals == {FZero, FHundredth, FHalf, FNineTenths, FOne, FMinusHalf, FNaN}

\* constructor arguments
NewMVals == {0, 1, 8, MaxNewM}
NewKVals == {0, 1, 2}
NewRateVals == {FZero, FHundredth}

\* header fields and bit-array parts of the byte streams given to from_file
\* (tuples: the well-formed values are tried first)
DeclMVals == <<1, 8, 9, 0, -1, -9, MaxInt32>>
DeclKVals == <<2, -1>>
\* n and error_rate vary together
DeclTails == {[n |-> Wide(0), error_rate |-> FHundredth],
              [n |-> Wide(MaxInt32), error_rate |-> FMinusHalf]}
PayloadBytes == {0, 129}
Payloads == UNION {[1 .. l -> PayloadBytes] : l \in 0 .. MaxPayload}
ShortLens == {0, 1, HeaderLen - 1}

Decl(dm, dk, dn, de) == [m |-> dm, k |-> dk, n |-> dn, error_rate |-> de]
NoDecl == Decl(0, 0, Wide(0), FZero)

NoArg ==
    [data |-> <<>>, decl |-> NoDecl, payload |-> <<>>, src |-> "none",
     lines |-> <<>>, num_elements |-> 0, error_rate |-> FZero, item |-> <<>>]
NoRet == [err |-> "none", m |-> 0, k |-> 0]

(***************************************************************************)
(* State.                                                                  *)
(***************************************************************************)
VARIABLES
    pc,          \* "start": no instance yet; "live": an instance exists
    m, k, n, error_rate, bit_array,   \* the fields of the instance
    origin,      \* how the instance was created: "new", "text", "file"
    added,       \* the items add has accepted on this instance
    adds,        \* add calls made so far
    hashOf,      \* hash() of this process
    op,          \* the last operation called
    err,         \* the exception it raised, "none" if it returned
    arg,         \* its arguments
    ret,         \* what the last call returned, if it was optimal_parameters
    diag,        \* the message boxes the last from_file showed
    disk         \* the bytes of the file the last to_file wrote

vars == <<pc, m, k, n, error_rate, bit_array, origin, added, adds, hashOf,
          op, err, arg, ret, diag, disk>>

fields == <<m, k, n, error_rate, bit_array>>

Self == [m |-> m, k |-> k, n |-> n, bit_array |-> bit_array]

Init ==
    /\ pc = "start"
    /\ m = 0 /\ k = 0 /\ n = Wide(0) /\ error_rate = FZero /\ bit_array = <<>>
    /\ origin = "none"
    /\ added = {}
    /\ adds = 0
    /\ hashOf \in [Elems -> HashVals]
    /\ op = "none" /\ err = "none" /\ arg = NoArg /\ ret = NoRet
    /\ diag = <<>>
    /\ disk = <<>>

\* the instance f replaces the current one
Install(f, how, items) ==
    /\ pc' = "live"
    /\ m' = f.m /\ k' = f.k /\ n' = f.n /\ error_rate' = f.error_rate
    /\ bit_array' = f.bit_array
    /\ origin' = how
    /\ added' = items

(***************************************************************************)
(* Operations.                                                             *)
(***************************************************************************)
\* BloomFilter(m, k, 0, error_rate)
New(fm, fk, fe) ==
    /\ pc = "start"
    /\ LET f == BloomFilterNew(fm, fk, Wide(0), fe)
       IN  /\ op' = "new" /\ err' = f.err
           /\ arg' = [NoArg EXCEPT !.decl = Decl(fm, fk, Wide(0), fe)]
           /\ IF f.err = "none" THEN Install(f, "new", {})
              ELSE UNCHANGED <<pc, fields, origin, added>>
    /\ ret' = NoRet
    /\ UNCHANGED <<adds, hashOf, diag, disk>>

\* BloomFilter.optimal_parameters(num_elements, error_rate)
OptimalParameters(num, rate) ==
    /\ pc = "start"
    /\ LET r == optimal_parameters(num, rate)
       IN  /\ op' = "optimal_parameters" /\ err' = r.err /\ ret' = r
           /\ arg' = [NoArg EXCEPT !.num_elements = num, !.error_rate = rate]
    /\ UNCHANGED <<pc, fields, origin, added, adds, hashOf, diag, disk>>

\* BloomFilter.from_text_file(text_file, error_rate), the file holding lines
FromTextFile(lines, rate) ==
    /\ pc = "start"
    /\ LET f == from_text_file(lines, rate, hashOf)
       IN  /\ op' = "from_text_file" /\ err' = f.err
           /\ arg' = [NoArg EXCEPT !.lines = lines, !.error_rate = rate]
           /\ IF f.err = "none" THEN Install(f, "text", f.items)
              ELSE UNCHANGED <<pc, fields, origin, added>>
    /\ ret' = NoRet
    /\ UNCHANGED <<adds, hashOf, diag, disk>>

\* BloomFilter.from_file on a stream of at least 20 bytes
FromFile(dm, dk, dn, de, payload) ==
    /\ pc = "start"
    /\ LET d == pack_header(dm, dk, dn, de).bytes \o payload
           f == from_file(d)
       IN  /\ op' = "from_file" /\ err' = "none" /\ diag' = f.diag
           /\ arg' = [NoArg EXCEPT !.data = d, !.decl = Decl(dm, dk, dn, de),
                                   !.payload = payload, !.src = "input"]
           /\ Install(f, "file", {})
    /\ ret' = NoRet
    /\ UNCHANGED <<adds, hashOf, disk>>

\* BloomFilter.from_file on a stream of fewer than 20 bytes
FromShortFile(dm, dk, dn, de, len) ==
    /\ pc = "start"
    /\ LET d == SubSeq(pack_header(dm, dk, dn, de).bytes, 1, len)
           f == from_file(d)
       IN  /\ op' = "from_file" /\ err' = "none" /\ diag' = f.diag
           /\ arg' = [NoArg EXCEPT !.data = d, !.src = "short"]
           /\ Install(f, "file", {})
    /\ ret' = NoRet
    /\ UNCHANGED <<adds, hashOf, disk>>

\* bf.add(item)
Add(item) ==
    /\ pc = "live"
    /\ adds < MaxAdds
    /\ LET r == add(Self, hashOf[item])
       IN  /\ op' = "add" /\ err' = r.err
           /\ arg' = [NoArg EXCEPT !.item = item]
           /\ bit_array' = r.bit_array
           /\ n' = r.n
           /\ added' = IF r.err = "none" THEN added \cup {item} ELSE added
    /\ adds' = adds + 1
    /\ ret' = NoRet
    /\ UNCHANGED <<pc, m, k, error_rate, origin, hashOf, diag, disk>>

\* bf.to_file(path)
ToFile ==
    /\ pc = "live"
    /\ LET r == to_file(m, k, n, error_rate, bit_array)
       IN  /\ op' = "to_file" /\ err' = r.err
           /\ arg' = NoArg
           /\ disk' = IF r.err = "none" THEN r.bytes ELSE disk
    /\ ret' = NoRet
    /\ UNCHANGED <<pc, fields, origin, added, adds, hashOf, diag>>

\* BloomFilter.from_file(path) of the file to_file wrote
Reload ==
    /\ pc = "live"
    /\ disk # <<>>
    /\ LET f == from_file(disk)
       IN  /\ op' = "from_file" /\ err' = "none" /\ diag' = f.diag
           /\ arg' = [NoArg EXCEPT !.data = disk, !.src = "disk"]
           /\ Install(f, "file", {})
    /\ ret' = NoRet
    /\ UNCHANGED <<adds, hashOf, disk>>

Next ==
    \/ \E fm \in NewMVals, fk \in NewKVals, fe \in NewRateVals : New(fm, fk, fe)
    \/ \E num \in -1 .. MaxLines, rate \in RateVals : OptimalParameters(num, rate)
    \/ \E lines \in TextFiles, rate \in RateVals : FromTextFile(lines, rate)
    \/ \E payload \in Payloads, t \in DeclTails,
          j \in DOMAIN DeclKVals, i \in DOMAIN DeclMVals :
            FromFile(DeclMVals[i], DeclKVals[j], t.n, t.error_rate, payload)
    \/ \E i \in DOMAIN DeclMVals, j \in DOMAIN DeclKVals, t \in DeclTails,
          len \in ShortLens :
            FromShortFile(DeclMVals[i], DeclKVals[j], t.n, t.error_rate, len)
    \/ \E item \in Elems : Add(item)
    \/ ToFile
    \/ Reload

Spec == Init /\ [][Next]_vars

(***************************************************************************)
(* Properties.                                                             *)
(***************************************************************************)
\* bit h of a buffer, counted from bit 0 of its first byte
TestBit(bits, h) ==
    /\ h >= 0
    /\ h \div 8 < Len(bits)
    /\ (bits[(h \div 8) + 1] \div (2 ^ (h % 8))) % 2 = 1

\* steps of the operations on one instance
AddStep == op' = "add" /\ adds' = adds + 1
ToFileStep == op' = "to_file"

\* C1: on a filter with m > 0 and k >= 1 that was created empty or by
\* from_text_file, every item add has accepted so far, not only the last
\* one, has all its k positions (hash(item) + i*C) mod m set in the bit
\* buffer, so that contains(item) is true.
C1_NoFalseNegatives ==
    (pc = "live" /\ origin \in {"new", "text"} /\ m > 0 /\ k >= 1) =>
        \A e \in added :
            /\ \A i \in 0 .. k - 1 : TestBit(bit_array, hashes(hashOf[e], i, m))
            /\ contains(bit_array, hashOf[e], k, m)

\* two items with different positions were added, one after the other
C1_Witness ==
    /\ pc = "live" /\ origin = "new" /\ op = "add"
    /\ m > 0 /\ k >= 2
    /\ added = Elems
    /\ \A e1, e2 \in Elems : e1 # e2 => hashes(hashOf[e1], 0, m) # hashes(hashOf[e2], 0, m)

\* C2: add on a filter that is not initialized (m = 0 or k < 1) raises an
\* error and leaves the bit buffer and n as they were.
C2_AddUninitializedFails ==
    [][(AddStep /\ (m = 0 \/ k < 1)) =>
          (err' # "none" /\ bit_array' = bit_array /\ n' = n)]_vars

\* C3: every filter made by the constructor without a buffer, by
\* from_text_file or by from_file, and whatever add did to it since, has
\* 0 <= m <= len(bit_array) * 8.
C3_SizeInvariant ==
    pc = "live" => (0 <= m /\ m <= Len(bit_array) * 8)

\* the 4 bytes b are the little-endian two's complement form of v
IsLittleEndian32(b, v) ==
    /\ Len(b) = 4
    /\ b[1] + 256 * b[2] = PosMod(v, Limb)
    /\ b[3] + 256 * b[4] = PosMod(FloorDiv(v, Limb), Limb)

\* what to_file has just written: the 20-byte header, then the bit buffer
WroteHeaderAndBuffer ==
    /\ err = "none"
    /\ Len(disk) = HeaderLen + Len(bit_array)
    /\ IsLittleEndian32(SubSeq(disk, 1, 4), m)
    /\ IsLittleEndian32(SubSeq(disk, 5, 8), k)
    /\ SubSeq(disk, 9, 10) = <<n.lo % 256, n.lo \div 256>>
    /\ disk[11] + 256 * disk[12] = PosMod(n.hi, Limb)
    /\ SubSeq(disk, 13, HeaderLen) = pack_d(error_rate)
    /\ SubSeq(disk, HeaderLen + 1, Len(disk)) = bit_array

\* from_file reads the file that to_file has just written
RoundTripStep == op = "to_file" /\ err = "none" /\ op' = "from_file"

\* the loaded filter equals the saved one; the buffer too, and no message
\* box is shown, when the saved buffer held exactly m bits
RoundTripSame ==
    /\ m' = m /\ k' = k /\ n' = n /\ error_rate' = error_rate
    /\ Len(bit_array) * 8 = m => (bit_array' = bit_array /\ diag' = <<>>)

FitsInt32 == WideInInt32(Wide(m)) /\ WideInInt32(Wide(k)) /\ WideInInt32(n)

LoadedInput == op = "from_file" /\ arg.src = "input"
ActualBits == Len(arg.payload) * 8

\* C5: from_file of a stream of 20 bytes or more whose declared m exceeds
\* the bits present raises nothing, shows exactly one "Bit Array Warning",
\* sets m to the bits present, keeps every byte after the header as the
\* buffer, and takes k, n and error_rate from the header.
C5_ShortBuffer ==
    (LoadedInput /\ arg.decl.m > ActualBits) =>
        /\ err = "none"
        /\ diag = <<"Bit Array Warning">>
        /\ m = ActualBits
        /\ bit_array = arg.payload
        /\ k = arg.decl.k /\ n = arg.decl.n
        /\ error_rate = arg.decl.error_rate

C5_Witness ==
    /\ LoadedInput /\ arg.decl.m = 9 /\ arg.payload = <<129>>
    /\ arg.decl.n = Wide(MaxInt32) /\ arg.decl.k = -1
    /\ m = 8

\* C6: from_file of a stream of 20 bytes or more with more bits present
\* than the declared m (any signed 32-bit m) keeps m, returns a buffer of
\* exactly ceil(m/8) bytes that is a prefix of the bytes after the header,
\* shows "Bit Array Info" exactly when the excess is above 7 bits, and with
\* an excess of 7 bits or fewer removes no byte and shows nothing.
C6_LongBuffer ==
    (LoadedInput /\ ActualBits > arg.decl.m) =>
        /\ m = arg.decl.m
        /\ Len(bit_array) = CeilDiv(arg.decl.m, 8)
        /\ Len(bit_array) <= Len(arg.payload)
        /\ bit_array = SubSeq(arg.payload, 1, Len(bit_array))
        /\ diag = IF ActualBits - arg.decl.m > 7 THEN <<"Bit Array Info">> ELSE <<>>
        /\ ActualBits - arg.decl.m <= 7 => bit_array = arg.payload

\* C7: from_file of a stream of fewer than 20 bytes, whatever they are,
\* raises nothing, shows exactly one "File Structure Warning" and returns
\* m = k = n = 0, error_rate = 0.0 and an empty buffer.
C7_HeaderTooShort ==
    (op = "from_file" /\ Len(arg.data) < HeaderLen) =>
        /\ err = "none"
        /\ diag = <<"File Structure Warning">>
        /\ pc = "live"
        /\ m = 0 /\ k = 0 /\ n = Wide(0)
        /\ error_rate = FZero
        /\ bit_array = <<>>

C7_Witness ==
    /\ op = "from_file" /\ Len(arg.data) = HeaderLen - 1
    /\ arg.data[1] # 0 /\ arg.data[5] # 0 /\ arg.data[9] # 0
    /\ m = 0

\* the last call was from_text_file, on arg.lines
AllBlank(lines) == \A i \in DOMAIN lines : strip(lines[i]) = <<>>

\* C8: from_text_file raises whenever the file yields no element to insert
\* (no line, or only lines that are empty once stripped), so it never
\* returns a filter with n = 0; when it returns, m and k are the ones
\* derived from the line count.
C8_EmptyInputFails ==
    op = "from_text_file" =>
        /\ AllBlank(arg.lines) => err # "none"
        /\ err = "none" =>
              /\ n # Wide(0)
              /\ m = optimal_parameters(Len(arg.lines), arg.error_rate).m
              /\ k = optimal_parameters(Len(arg.lines), arg.error_rate).k

\* C9: add and to_file never lower n, a successful add raises it by
\* exactly 1, a set bit stays set, m, k, error_rate and the length of the
\* buffer never change, and to_file changes no field at all.
C9_Monotonic ==
    [][/\ AddStep =>
            /\ n' = IF err' = "none" THEN WideSucc(n) ELSE n
            /\ ~WideLess(n', n)
            /\ Len(bit_array') = Len(bit_array)
            /\ \A h \in 0 .. Len(bit_array) * 8 - 1 :
                  TestBit(bit_array, h) => TestBit(bit_array', h)
            /\ m' = m /\ k' = k /\ error_rate' = error_rate
       /\ ToFileStep => UNCHANGED fields]_vars

\* a second add, after the filter was saved, found bits already set
C9_Witness ==
    /\ op = "add" /\ err = "none" /\ adds = 2
    /\ disk # <<>>
    /\ added = Elems
    /\ n = Wide(2)
    /\ m = 9 /\ k = 2

\* the doubles of the model strictly between 0 and 1
UnitRates == {FHundredth, FHalf, FNineTenths}

\* C10: optimal_parameters raises exactly when num_elements <= 0 or
\* error_rate is not strictly between 0 and 1; otherwise it returns m > 0,
\* k >= 1 with m = ceil(-num_elements * ln(error_rate) / ln(2)^2) and
\* k = max(1, round(m / num_elements * ln(2))).
C10_OptimalParameters ==
    op = "optimal_parameters" =>
        LET num == arg.num_elements
            x == -num * LogMicro(arg.error_rate)
            den == num * 1000000
        IN  /\ err # "none" <=> (num <= 0 \/ arg.error_rate \notin UnitRates)
            /\ err = "none" =>
                  /\ ret.m > 0 /\ ret.k >= 1
                  \* m is the least integer with m * ln(2)^2 >= x
                  /\ (ret.m - 1) * LN2SQ < x /\ x <= ret.m * LN2SQ
                  \* k is 1, or the integer nearest to m * ln(2) / num
                  /\ \/ ret.k = 1 /\ 2 * ret.m * LN2 < 3 * den
                     \/ /\ 2 * (ret.k * den - ret.m * LN2) <= den
                        /\ 2 * (ret.m * LN2 - ret.k * den) <= den

\* the clamp of k to 1 acted: round(m / num_elements * ln(2)) is 0
C10_Witness ==
    /\ op = "optimal_parameters" /\ err = "none"
    /\ arg.num_elements = 2 /\ arg.error_rate = FNineTenths
    /\ ret.m = 1 /\ ret.k = 1

(***************************************************************************)
(* BFAnalyzerGUI.open_analysis_window.show_statistics: the figures it      *)
(* reports on the filter, which it leaves unchanged.                       *)
(***************************************************************************)
\* bin(byte).count("1")
BitCount(byte) == Cardinality({i \in 0 .. 7 : BitOf(byte, i) = 1})

RECURSIVE CountBits(_, _)
\* the loop over bf.bit_array from position i on
CountBits(bits, i) ==
    IF i > Len(bits) THEN 0
    ELSE BitCount(bits[i]) + CountBits(bits, i + 1)

active_bits == CountBits(bit_array, 1)

\* active_bits / bf.m if bf.m > 0 else 0, as a fraction
density ==
    IF m > 0 THEN [num |-> active_bits, den |-> m]
    ELSE [num |-> 0, den |-> 1]

\* C11: on every filter made by the constructor, from_text_file or
\* from_file, and whatever add did to it since, the reported count of set
\* bits (every bit of the buffer, padding bits included) is at most m, so
\* the reported density is in [0, 1] when m > 0 and 0 when m = 0; on a
\* filter that started empty and was filled by add only, the count is also
\* at most k * n.
C11_SetBitsBounded ==
    pc = "live" =>
        /\ active_bits <= m
        /\ 0 <= density.num /\ density.num <= density.den
        /\ m = 0 => density.num = 0
        /\ origin \in {"new", "text"} => active_bits <= k * Narrow(n)

=============================================================================
